---- MODULE Spec2Model ----
(***************************************************************************)
(* pathsearch: search the directories of PATH for file names matching a    *)
(* pattern.  The module models                                             *)
(*   - the file name filters of src/filename_filter.rs,                    *)
(*   - the executable filter of src/file_filter.rs,                        *)
(*   - FormattedOutput::print and main of src/main.rs.                     *)
(* Byte strings are sequences of integers 0..255.  Rust slices are 0-based *)
(* and half-open: s[i..j] is SubSeq(s, i + 1, j).                          *)
(***************************************************************************)
EXTENDS Integers, Sequences, FiniteSets, TLC

VARIABLES
    call,       \* the call under test in the single-function specifications
    ret,        \* its result, or Pending before the call has run
    pc,         \* position of main: "start", "validate", "filter", "dirs", "files", "exited"
    env,        \* the environment and file system main runs in
    config,     \* Config built by Config::new
    flt,        \* the boxed FileNameFilter built by main
    dir_i,      \* index of the next directory of config.dirs (for dir in config.dirs)
    file_i,     \* index of the next entry of the open directory (for file in files)
    stdout,     \* bytes written to standard output
    stderr,     \* diagnostics written to standard error, in order
    exit_code,  \* process exit status once pc = "exited"
    history     \* history: the read_dir and print calls made so far, in order; a print
                \* call with the name given to the filter, the name printed and the range

vars == <<call, ret, pc, env, config, flt, dir_i, file_i, stdout, stderr, exit_code, history>>

mainVars == <<pc, env, config, flt, dir_i, file_i, stdout, stderr, exit_code, history>>

Pending == [tag |-> "Pending"]

----------------------------------------------------------------------------
(* Bounds of the model.                                                    *)

\* longest file name passed to a filter on its own
MaxNameLen == 4
\* longest substring pattern
MaxPatLen == 3

\* the bytes file names and substring patterns are built from: 'a', 'b', 0xFF
NameBytes == {97, 98, 255}

\* all byte strings over S of length at most n
SeqsUpTo(S, n) == UNION {[1..k -> S] : k \in 0..n}

----------------------------------------------------------------------------
(* src/filename_filter.rs                                                  *)

\* enum MatchRange
MatchRange_None == [tag |-> "None"]
MatchRange_Range(start, end) == [tag |-> "Range", start |-> start, end |-> end]

\* enum FilterResult; Panicked is the unwinding of a panic inside filter
Matched(range) == [tag |-> "Matched", range |-> range]
NoMatch == [tag |-> "NoMatch"]
Panicked(msg) == [tag |-> "Panicked", msg |-> msg]

\* MatchAllFilter::filter
MatchAllFilter_filter(filename) == Matched(MatchRange_None)

\* slice::windows(size): the number of windows; windows(0) panics
WindowCount(filename, size) ==
    IF Len(filename) >= size THEN Len(filename) - size + 1 ELSE 0

\* Iterator::position over the windows, from window i (0-based) onwards:
\* the first i whose window equals the pattern, or -1 for None
RECURSIVE PositionFrom(_, _, _)
PositionFrom(filename, pattern, i) ==
    IF i >= WindowCount(filename, Len(pattern)) THEN -1
    ELSE IF SubSeq(filename, i + 1, i + Len(pattern)) = pattern THEN i
    ELSE PositionFrom(filename, pattern, i + 1)

\* mutant: the last window equal to the pattern (rposition)
RECURSIVE RPositionFrom(_, _, _)
RPositionFrom(filename, pattern, i) ==
    IF i >= WindowCount(filename, Len(pattern)) THEN -1
    ELSE LET later == RPositionFrom(filename, pattern, i + 1)
         IN  IF later >= 0 THEN later
             ELSE IF SubSeq(filename, i + 1, i + Len(pattern)) = pattern THEN i
             ELSE -1

SubstringFilter_filter_last(pattern, filename) ==
    IF Len(pattern) = 0 THEN Panicked("window size must be non-zero")
    ELSE LET start == RPositionFrom(filename, pattern, 0)
         IN  IF start >= 0
             THEN Matched(MatchRange_Range(start, start + Len(pattern)))
             ELSE NoMatch

\* SubstringFilter::filter
SubstringFilter_filter(pattern, filename) ==
    IF Len(pattern) = 0 THEN Panicked("window size must be non-zero")
    ELSE LET start == PositionFrom(filename, pattern, 0)
         IN  IF start >= 0
             THEN Matched(MatchRange_Range(start, start + Len(pattern)))
             ELSE NoMatch

----------------------------------------------------------------------------
(* regex::bytes::Regex as RegexFilter uses it.  A compiled regex is a      *)
(* syntax tree; find is the leftmost-first search of the regex crate: the  *)
(* lowest start offset with a match, and at that offset the match a        *)
(* backtracking engine prefers (left alternative first, greedy star).      *)

Lit(c) == [t |-> "lit", c |-> c]
Class(s) == [t |-> "class", s |-> s]
Cat(l, r) == [t |-> "cat", l |-> l, r |-> r]
Alt(l, r) == [t |-> "alt", l |-> l, r |-> r]
Star(r) == [t |-> "star", r |-> r]
Plus(r) == Cat(r, Star(r))
Bol == [t |-> "bol"]
Eol == [t |-> "eol"]
Empty == [t |-> "empty"]

\* ASCII digits, the part of \d within the modelled bytes
Digit == Class(48..57)

\* the end offsets of the matches of re that start at offset s, most
\* preferred first
RECURSIVE MatchEnds(_, _, _)
RECURSIVE MatchEndsEach(_, _, _)
MatchEnds(re, f, s) ==
    CASE re.t = "lit" -> IF s < Len(f) /\ f[s + 1] = re.c THEN <<s + 1>> ELSE <<>>
      [] re.t = "class" -> IF s < Len(f) /\ f[s + 1] \in re.s THEN <<s + 1>> ELSE <<>>
      [] re.t = "bol" -> IF s = 0 THEN <<s>> ELSE <<>>
      [] re.t = "eol" -> IF s = Len(f) THEN <<s>> ELSE <<>>
      [] re.t = "empty" -> <<s>>
      [] re.t = "cat" -> MatchEndsEach(re.r, f, MatchEnds(re.l, f, s))
      [] re.t = "alt" -> MatchEnds(re.l, f, s) \o MatchEnds(re.r, f, s)
      [] re.t = "star" ->
            MatchEndsEach(re, f, SelectSeq(MatchEnds(re.r, f, s), LAMBDA m : m > s))
                \o <<s>>
\* the matches of re continued from each offset of mids, in order
MatchEndsEach(re, f, mids) ==
    IF mids = <<>> THEN <<>>
    ELSE MatchEnds(re, f, Head(mids)) \o MatchEndsEach(re, f, Tail(mids))

\* Option<Match>
Option_None == [tag |-> "None"]
Some(v) == [tag |-> "Some", v |-> v]

\* Regex::find from offset s onwards
RECURSIVE FindFrom(_, _, _)
FindFrom(re, f, s) ==
    IF s > Len(f) THEN Option_None
    ELSE LET ends == MatchEnds(re, f, s)
         IN  IF ends # <<>> THEN Some([start |-> s, end |-> Head(ends)])
             ELSE FindFrom(re, f, s + 1)

\* Regex::find
Regex_find(re, f) == FindFrom(re, f, 0)

\* Result<_, _>
Ok(v) == [tag |-> "Ok", v |-> v]
Err(e) == [tag |-> "Err", e |-> e]

\* the pattern strings the model compiles, as bytes
Pat_digits == <<92, 100, 43>>      \* \d+
Pat_a_star == <<97, 42>>           \* a*
Pat_bol_a == <<94, 97>>            \* ^a
Pat_b_eol == <<98, 36>>            \* b$
Pat_bol_ab_eol == <<94, 97, 98, 36>> \* ^ab$
Pat_ab == <<97, 98>>               \* ab
Pat_a_or_ab == <<97, 124, 97, 98>> \* a|ab
Pat_b_or_ab == <<98, 124, 97, 98>> \* b|ab
Pat_a == <<97>>                    \* a
Pat_empty == <<>>                  \* the empty pattern
Pat_open == <<40>>                 \* (
Pat_star == <<42>>                 \* *

ValidRegexPatterns ==
    {Pat_digits, Pat_a_star, Pat_bol_a, Pat_b_eol, Pat_bol_ab_eol, Pat_ab,
     Pat_a_or_ab, Pat_b_or_ab, Pat_a, Pat_empty}
InvalidRegexPatterns == {Pat_open, Pat_star}
RegexPatterns == ValidRegexPatterns \cup InvalidRegexPatterns

\* Regex::new on the modelled patterns: the syntax tree, or a parse error
Regex_new(pattern) ==
    CASE pattern = Pat_digits -> Ok(Plus(Digit))
      [] pattern = Pat_a_star -> Ok(Star(Lit(97)))
      [] pattern = Pat_bol_a -> Ok(Cat(Bol, Lit(97)))
      [] pattern = Pat_b_eol -> Ok(Cat(Lit(98), Eol))
      [] pattern = Pat_bol_ab_eol -> Ok(Cat(Bol, Cat(Lit(97), Cat(Lit(98), Eol))))
      [] pattern = Pat_ab -> Ok(Cat(Lit(97), Lit(98)))
      [] pattern = Pat_a_or_ab -> Ok(Alt(Lit(97), Cat(Lit(97), Lit(98))))
      [] pattern = Pat_b_or_ab -> Ok(Alt(Lit(98), Cat(Lit(97), Lit(98))))
      [] pattern = Pat_a -> Ok(Lit(97))
      [] pattern = Pat_empty -> Ok(Empty)
      [] pattern = Pat_open -> Err("regex parse error: unclosed group")
      [] pattern = Pat_star -> Err("regex parse error: repetition operator missing expression")

\* RegexFilter::new
RegexFilter_new(pattern) ==
    LET compiled == Regex_new(pattern)
    IN  IF compiled.tag = "Ok" THEN Ok([regex |-> compiled.v]) ELSE Err(compiled.e)

\* mutant: a match of length zero is taken for no match
RegexFilter_filter_nonempty(self, filename) ==
    LET m == Regex_find(self.regex, filename)
    IN  IF m.tag = "Some" /\ m.v.start < m.v.end
        THEN Matched(MatchRange_Range(m.v.start, m.v.end))
        ELSE NoMatch

\* RegexFilter::filter
RegexFilter_filter(self, filename) ==
    LET m == Regex_find(self.regex, filename)
    IN  IF m.tag = "Some"
        THEN Matched(MatchRange_Range(m.v.start, m.v.end))
        ELSE NoMatch

----------------------------------------------------------------------------
(* src/file_filter.rs                                                      *)

\* the execute permission bits tested by ExecutableFilter: 0o111
ExecBits == 73

\* bitwise and of two naturals
RECURSIVE BitAnd(_, _)
BitAnd(x, y) ==
    IF x = 0 \/ y = 0 THEN 0
    ELSE (x % 2) * (y % 2) + 2 * BitAnd(x \div 2, y \div 2)

\* the kinds of directory entry DirEntry::metadata can describe
FileTypes == {"file", "symlink", "dir", "fifo"}

\* fs::Metadata of an entry: its permission bits and its file type
Metadata(mode, file_type) == [mode |-> mode, file_type |-> file_type]

\* ExecutableFilter::filter on an entry whose metadata() returns `metadata`:
\* the boolean, or the panic of expect on Err
ExecutableFilter_filter(metadata) ==
    IF metadata.tag = "Err"
    THEN Panicked("Failed to get metadata for file")
    ELSE [tag |-> "Bool", b |-> BitAnd(metadata.v.mode, ExecBits) # 0]

----------------------------------------------------------------------------
(* src/main.rs: FormattedOutput                                            *)

\* std::path::MAIN_SEPARATOR on Unix, "/", and the "\n" of writeln!
MAIN_SEPARATOR == <<47>>
Newline == <<10>>

\* the ANSI sequences "\x1B[2m", "\x1B[1;31m" and "\x1B[0m"
DIM == <<27, 91, 50, 109>>
BOLD_RED == <<27, 91, 49, 59, 51, 49, 109>>
RESET == <<27, 91, 48, 109>>

\* mutant: the codes are set whether or not color is enabled
FormattedOutput_new_always(color) ==
    [dir_ansi |-> DIM, match_ansi |-> BOLD_RED, reset_ansi |-> RESET]

\* FormattedOutput::new
FormattedOutput_new(color) ==
    IF color
    THEN [dir_ansi |-> DIM, match_ansi |-> BOLD_RED, reset_ansi |-> RESET]
    ELSE [dir_ansi |-> <<>>, match_ansi |-> <<>>, reset_ansi |-> <<>>]

\* the Rust slice s[from..to]; the caller checks from <= to <= len
Slice(s, from, to) == SubSeq(s, from + 1, to)

\* what a call of print leaves behind: the output stream, and whether the
\* call panicked on a slice index out of range
Written(out, panicked) == [out |-> out, panicked |-> panicked]

\* mutant: the tail of the file name is taken from start instead of end
FormattedOutput_print_tail(self, output, dir, file, range) ==
    LET head == output \o self.dir_ansi \o dir \o MAIN_SEPARATOR \o self.reset_ansi
        len == Len(file)
    IN  IF range.tag = "None"
        THEN Written(head \o file \o self.reset_ansi \o Newline, FALSE)
        ELSE IF range.start > len
        THEN Written(head, TRUE)
        ELSE IF range.start > range.end \/ range.end > len
        THEN Written(head \o Slice(file, 0, range.start) \o self.match_ansi, TRUE)
        ELSE Written(head \o Slice(file, 0, range.start) \o self.match_ansi
                        \o Slice(file, range.start, range.end) \o self.reset_ansi
                        \o Slice(file, range.start, len)
                        \o self.reset_ansi \o Newline, FALSE)

\* FormattedOutput::print, writing to an in-memory stream whose writes are
\* complete (as the Vec<u8> of the tests): the writes in program order, up
\* to the first slice that panics
FormattedOutput_print(self, output, dir, file, range) ==
    LET head == output \o self.dir_ansi \o dir \o MAIN_SEPARATOR \o self.reset_ansi
        len == Len(file)
    IN  IF range.tag = "None"
        THEN Written(head \o file \o self.reset_ansi \o Newline, FALSE)
        ELSE IF range.start > len
        THEN Written(head, TRUE)
        ELSE IF range.start > range.end \/ range.end > len
        THEN Written(head \o Slice(file, 0, range.start) \o self.match_ansi, TRUE)
        ELSE Written(head \o Slice(file, 0, range.start) \o self.match_ansi
                        \o Slice(file, range.start, range.end) \o self.reset_ansi
                        \o Slice(file, range.end, len)
                        \o self.reset_ansi \o Newline, FALSE)

----------------------------------------------------------------------------
(* src/main.rs: Config and main                                            *)

\* longest list of directories joined into PATH
MaxDirs == 2

\* OsStr::display().to_string(): the lossy conversion to UTF-8.  Of the
\* modelled bytes those below 0x80 are ASCII and stay; 0xFF is never valid
\* UTF-8 and becomes U+FFFD, the bytes EF BF BD
RECURSIVE Display(_)
Display(raw) ==
    IF raw = <<>> THEN <<>>
    ELSE (IF Head(raw) < 128 THEN <<Head(raw)>> ELSE <<239, 191, 189>>)
            \o Display(Tail(raw))

\* str::from_utf8 succeeds on the modelled bytes
IsUnicode(raw) == \A i \in 1..Len(raw) : raw[i] < 128

\* env::split_paths on Unix: the pieces of the value between ':' bytes; an
\* empty value has the one piece ""
RECURSIVE SplitPaths(_)
SplitPaths(unparsed) ==
    LET colons == {i \in 1..Len(unparsed) : unparsed[i] = 58}
    IN  IF colons = {} THEN <<unparsed>>
        ELSE LET i == CHOOSE c \in colons : \A d \in colons : c <= d
             IN  <<SubSeq(unparsed, 1, i - 1)>>
                    \o SplitPaths(SubSeq(unparsed, i + 1, Len(unparsed)))

\* the value of PATH that lists the directories ds
RECURSIVE JoinPaths(_)
JoinPaths(ds) ==
    IF ds = <<>> THEN <<>>
    ELSE IF Len(ds) = 1 THEN ds[1]
    ELSE ds[1] \o <<58>> \o JoinPaths(Tail(ds))

\* the directories of the modelled file system, "/a" and "/b"; the empty
\* path "" and every other path do not exist
Dir_a == <<47, 97>>
Dir_b == <<47, 98>>
DirNames == {Dir_a, Dir_b}

\* what PATH can be: unset, not valid Unicode, or a list of up to MaxDirs
\* directories (existing or ""), joined by ':'
PathValues ==
    {Option_None, Some(<<47, 255>>)}
        \cup {Some(JoinPaths(ds)) : ds \in SeqsUpTo(DirNames \cup {<<>>}, MaxDirs)}

\* what fs::read_dir(dir) can give: an error, or the entries in the order
\* the iterator yields them, each a name or an error
Listings ==
    {Err("No such file or directory"),
     Ok(<<>>),
     Ok(<<Ok(<<97, 98>>), Err("Input/output error"), Ok(<<98>>), Ok(<<98, 97, 98>>)>>),
     Ok(<<Ok(<<97, 255>>), Ok(<<98, 97>>)>>)}

\* what Args::parse_manual can return
ArgsValues ==
    {Err("Unknown option: -x")}
        \cup {Ok([pattern |-> p, regex |-> r, color |-> c]) :
                p \in {Option_None} \cup {Some(q) : q \in {Pat_a, Pat_ab, Pat_empty,
                                                          Pat_a_star, Pat_open}},
                r \in BOOLEAN,
                c \in {"Auto", "Always", "Never"}}

\* the first line print_help writes to standard output, "pathsearch"
HelpText == <<112, 97, 116, 104, 115, 101, 97, 114, 99, 104, 10>>

\* fs::read_dir
read_dir(fs, dir) ==
    IF dir \in DOMAIN fs THEN fs[dir] ELSE Err("No such file or directory")

\* dyn FileNameFilter::filter, dispatched on the filter main built; main
\* passes it file_name, the displayed name, and the filter reads its bytes
FileNameFilter_filter(self, filename) ==
    CASE self.kind = "MatchAll" -> MatchAllFilter_filter(filename)
      [] self.kind = "Substring" -> SubstringFilter_filter(self.pattern, filename)
      [] self.kind = "Regex" -> RegexFilter_filter(self, filename)

\* process::exit(code), and a panic, which exits with status 101
Exit(code) == pc' = "exited" /\ exit_code' = code

InitMain ==
    /\ env \in [PATH : PathValues,
                args : ArgsValues,
                is_terminal : BOOLEAN,
                fs : [DirNames -> Listings]]
    /\ pc = "start"
    /\ config = Option_None
    /\ flt = Option_None
    /\ dir_i = 0
    /\ file_i = 0
    /\ stdout = <<>>
    /\ stderr = <<>>
    /\ exit_code = -1
    /\ history = <<>>
    /\ call = <<>>
    /\ ret = <<>>

\* Config::new
ConfigNew ==
    /\ pc = "start"
    /\ IF env.args.tag = "Err"
       THEN /\ stderr' = stderr \o <<[msg |-> "Error", detail |-> env.args.e]>>
            /\ stdout' = stdout \o HelpText
            /\ Exit(1)
            /\ UNCHANGED config
       ELSE IF env.PATH.tag = "None" \/ ~IsUnicode(env.PATH.v)
       THEN /\ stderr' = stderr \o <<[msg |-> "Failed to get PATH",
                                      detail |-> env.PATH.tag]>>
            /\ Exit(101)
            /\ UNCHANGED <<stdout, config>>
       ELSE LET args == env.args.v
            IN  /\ config' = Some(
                        [dirs |-> SplitPaths(env.PATH.v),
                         pattern |-> args.pattern,
                         search_type |-> IF args.pattern.tag = "None" THEN "MatchAll"
                                         ELSE IF args.regex THEN "Regex"
                                         ELSE "Substring",
                         color |-> CASE args.color = "Auto" -> env.is_terminal
                                     [] args.color = "Always" -> TRUE
                                     [] args.color = "Never" -> FALSE])
                /\ pc' = "validate"
                /\ UNCHANGED <<stdout, stderr, exit_code>>
    /\ UNCHANGED <<call, ret, env, flt, dir_i, file_i, history>>

\* Config::validate and the exit of main on false
Validate ==
    /\ pc = "validate"
    /\ IF Len(config.v.dirs) = 0
       THEN /\ stderr' = stderr \o <<[msg |-> "No directories in PATH"]>>
            /\ Exit(1)
       ELSE /\ pc' = "filter"
            /\ UNCHANGED <<stderr, exit_code>>
    /\ UNCHANGED <<call, ret, env, config, flt, dir_i, file_i, stdout, history>>

\* mutant: a pattern that does not compile falls back to matching all
BuildFilter_fallback ==
    /\ pc = "filter"
    /\ LET built ==
            CASE config.v.search_type = "MatchAll" -> Ok([kind |-> "MatchAll"])
              [] config.v.search_type = "Substring" ->
                    Ok([kind |-> "Substring", pattern |-> config.v.pattern.v])
              [] config.v.search_type = "Regex" ->
                    LET r == RegexFilter_new(config.v.pattern.v)
                    IN  IF r.tag = "Ok"
                        THEN Ok([kind |-> "Regex", regex |-> r.v.regex])
                        ELSE Ok([kind |-> "MatchAll"])
       IN  /\ flt' = Some(built.v)
           /\ pc' = "dirs"
           /\ dir_i' = 1
           /\ UNCHANGED <<stderr, exit_code>>
    /\ UNCHANGED <<call, ret, env, config, file_i, stdout, history>>

\* main: the filter for config.search_type; an invalid regex is reported
\* and exits with status 1
BuildFilter ==
    /\ pc = "filter"
    /\ LET built ==
            CASE config.v.search_type = "MatchAll" -> Ok([kind |-> "MatchAll"])
              [] config.v.search_type = "Substring" ->
                    Ok([kind |-> "Substring", pattern |-> config.v.pattern.v])
              [] config.v.search_type = "Regex" ->
                    LET r == RegexFilter_new(config.v.pattern.v)
                    IN  IF r.tag = "Ok"
                        THEN Ok([kind |-> "Regex", regex |-> r.v.regex])
                        ELSE r
       IN  IF built.tag = "Ok"
           THEN /\ flt' = Some(built.v)
                /\ pc' = "dirs"
                /\ dir_i' = 1
                /\ UNCHANGED <<stderr, exit_code>>
           ELSE /\ stderr' = stderr \o <<[msg |-> "Invalid regex pattern",
                                          pattern |-> config.v.pattern.v,
                                          detail |-> built.e]>>
                /\ Exit(1)
                /\ UNCHANGED <<flt, dir_i>>
    /\ UNCHANGED <<call, ret, env, config, file_i, stdout, history>>

\* mutant: the vector is walked from its end
ItemAt_rev(items, i) == items[Len(items) + 1 - i]

\* the item the loop over a vector yields in its i-th round (1-based)
ItemAt(items, i) == items[i]

\* the directory of the current round of `for dir in config.dirs`
CurrentDir == ItemAt(config.v.dirs, dir_i)

\* the entries read_dir gave for the current directory
CurrentFiles == read_dir(env.fs, CurrentDir).v

\* mutant: a directory that cannot be listed ends the program
NextDir_fatal ==
    /\ pc = "dirs"
    /\ dir_i <= Len(config.v.dirs)
    /\ history' = Append(history, [ev |-> "read_dir", dir |-> dir_i])
    /\ IF read_dir(env.fs, CurrentDir).tag = "Err"
       THEN /\ Exit(1)
            /\ UNCHANGED <<dir_i, file_i>>
       ELSE /\ pc' = "files"
            /\ file_i' = 1
            /\ UNCHANGED <<dir_i, exit_code>>
    /\ UNCHANGED <<call, ret, env, config, flt, stdout, stderr>>

\* main: the next round of `for dir in config.dirs`: read_dir, and on an
\* error on to the next directory
NextDir ==
    /\ pc = "dirs"
    /\ dir_i <= Len(config.v.dirs)
    /\ history' = Append(history, [ev |-> "read_dir", dir |-> dir_i])
    /\ IF read_dir(env.fs, CurrentDir).tag = "Err"
       THEN /\ dir_i' = dir_i + 1
            /\ UNCHANGED <<pc, file_i>>
       ELSE /\ pc' = "files"
            /\ file_i' = 1
            /\ UNCHANGED dir_i
    /\ UNCHANGED <<call, ret, env, config, flt, stdout, stderr, exit_code>>

\* main: the end of `for dir in config.dirs`, ExitCode::SUCCESS
ExitSuccess ==
    /\ pc = "dirs"
    /\ dir_i > Len(config.v.dirs)
    /\ Exit(0)
    /\ UNCHANGED <<call, ret, env, config, flt, dir_i, file_i, stdout, stderr, history>>

\* mutant: a name already printed is not printed again
NextFile_dedup ==
    /\ pc = "files"
    /\ file_i <= Len(CurrentFiles)
    /\ LET file == ItemAt(CurrentFiles, file_i)
           dir_str == Display(CurrentDir)
       IN  IF file.tag = "Err"
           THEN /\ stderr' = stderr \o <<[msg |-> "Failed to get directory entry",
                                          dir |-> dir_str, detail |-> file.e]>>
                /\ file_i' = file_i + 1
                /\ UNCHANGED <<pc, exit_code, stdout, history>>
           ELSE LET file_name == Display(file.v)
                    filter_result == FileNameFilter_filter(flt.v, file_name)
                IN  CASE filter_result.tag = "Panicked" ->
                            /\ stderr' = stderr \o <<[msg |-> "panicked",
                                                      detail |-> filter_result.msg]>>
                            /\ Exit(101)
                            /\ UNCHANGED <<file_i, stdout, history>>
                      [] filter_result.tag = "NoMatch" ->
                            /\ file_i' = file_i + 1
                            /\ UNCHANGED <<pc, exit_code, stdout, stderr, history>>
                      [] (filter_result.tag = "Matched"
                            /\ \E k \in 1..Len(history) :
                                    /\ history[k].ev = "print"
                                    /\ history[k].printed = file_name) ->
                            /\ file_i' = file_i + 1
                            /\ UNCHANGED <<pc, exit_code, stdout, stderr, history>>
                      [] (filter_result.tag = "Matched"
                            /\ \A k \in 1..Len(history) :
                                    history[k].ev = "print" =>
                                        history[k].printed # file_name) ->
                            LET w == FormattedOutput_print(
                                        FormattedOutput_new(config.v.color), stdout,
                                        dir_str, file_name, filter_result.range)
                            IN  /\ stdout' = w.out
                                /\ history' = Append(history, [ev |-> "print",
                                                dir |-> dir_i, file |-> file_i,
                                                filtered |-> file_name,
                                                printed |-> file_name,
                                                range |-> filter_result.range])
                                /\ IF w.panicked
                                   THEN /\ stderr' = stderr \o <<[msg |-> "panicked",
                                                detail |-> "range out of bounds"]>>
                                        /\ Exit(101)
                                        /\ UNCHANGED file_i
                                   ELSE /\ file_i' = file_i + 1
                                        /\ UNCHANGED <<pc, exit_code, stderr>>
    /\ UNCHANGED <<call, ret, env, config, flt, dir_i>>

\* mutant: print is given the raw name, the filter the displayed one
NextFile_rawname ==
    /\ pc = "files"
    /\ file_i <= Len(CurrentFiles)
    /\ LET file == ItemAt(CurrentFiles, file_i)
           dir_str == Display(CurrentDir)
       IN  IF file.tag = "Err"
           THEN /\ stderr' = stderr \o <<[msg |-> "Failed to get directory entry",
                                          dir |-> dir_str, detail |-> file.e]>>
                /\ file_i' = file_i + 1
                /\ UNCHANGED <<pc, exit_code, stdout, history>>
           ELSE LET file_name == Display(file.v)
                    filter_result == FileNameFilter_filter(flt.v, file_name)
                IN  CASE filter_result.tag = "Panicked" ->
                            /\ stderr' = stderr \o <<[msg |-> "panicked",
                                                      detail |-> filter_result.msg]>>
                            /\ Exit(101)
                            /\ UNCHANGED <<file_i, stdout, history>>
                      [] filter_result.tag = "NoMatch" ->
                            /\ file_i' = file_i + 1
                            /\ UNCHANGED <<pc, exit_code, stdout, stderr, history>>
                      [] filter_result.tag = "Matched" ->
                            LET w == FormattedOutput_print(
                                        FormattedOutput_new(config.v.color), stdout,
                                        dir_str, file.v, filter_result.range)
                            IN  /\ stdout' = w.out
                                /\ history' = Append(history, [ev |-> "print",
                                                dir |-> dir_i, file |-> file_i,
                                                filtered |-> file_name,
                                                printed |-> file.v,
                                                range |-> filter_result.range])
                                /\ IF w.panicked
                                   THEN /\ stderr' = stderr \o <<[msg |-> "panicked",
                                                detail |-> "range out of bounds"]>>
                                        /\ Exit(101)
                                        /\ UNCHANGED file_i
                                   ELSE /\ file_i' = file_i + 1
                                        /\ UNCHANGED <<pc, exit_code, stderr>>
    /\ UNCHANGED <<call, ret, env, config, flt, dir_i>>

\* main: one round of `for file in files`: an entry that cannot be read is
\* reported and skipped; a name the filter matches is printed; a panic in
\* the filter or in print ends the process with status 101
NextFile ==
    /\ pc = "files"
    /\ file_i <= Len(CurrentFiles)
    /\ LET file == ItemAt(CurrentFiles, file_i)
           dir_str == Display(CurrentDir)
       IN  IF file.tag = "Err"
           THEN /\ stderr' = stderr \o <<[msg |-> "Failed to get directory entry",
                                          dir |-> dir_str, detail |-> file.e]>>
                /\ file_i' = file_i + 1
                /\ UNCHANGED <<pc, exit_code, stdout, history>>
           ELSE LET file_name == Display(file.v)
                    filter_result == FileNameFilter_filter(flt.v, file_name)
                IN  CASE filter_result.tag = "Panicked" ->
                            /\ stderr' = stderr \o <<[msg |-> "panicked",
                                                      detail |-> filter_result.msg]>>
                            /\ Exit(101)
                            /\ UNCHANGED <<file_i, stdout, history>>
                      [] filter_result.tag = "NoMatch" ->
                            /\ file_i' = file_i + 1
                            /\ UNCHANGED <<pc, exit_code, stdout, stderr, history>>
                      [] filter_result.tag = "Matched" ->
                            LET w == FormattedOutput_print(
                                        FormattedOutput_new(config.v.color), stdout,
                                        dir_str, file_name, filter_result.range)
                            IN  /\ stdout' = w.out
                                /\ history' = Append(history, [ev |-> "print",
                                                dir |-> dir_i, file |-> file_i,
                                                filtered |-> file_name,
                                                printed |-> file_name,
                                                range |-> filter_result.range])
                                /\ IF w.panicked
                                   THEN /\ stderr' = stderr \o <<[msg |-> "panicked",
                                                detail |-> "range out of bounds"]>>
                                        /\ Exit(101)
                                        /\ UNCHANGED file_i
                                   ELSE /\ file_i' = file_i + 1
                                        /\ UNCHANGED <<pc, exit_code, stderr>>
    /\ UNCHANGED <<call, ret, env, config, flt, dir_i>>

\* main: the end of `for file in files`, on to the next directory
EndOfDir ==
    /\ pc = "files"
    /\ file_i > Len(CurrentFiles)
    /\ pc' = "dirs"
    /\ dir_i' = dir_i + 1
    /\ UNCHANGED <<call, ret, env, config, flt, file_i, stdout, stderr, exit_code, history>>

Next ==
    \/ ConfigNew
    \/ Validate
    \/ BuildFilter
    \/ NextDir
    \/ ExitSuccess
    \/ NextFile
    \/ EndOfDir

Spec == InitMain /\ [][Next]_vars

----------------------------------------------------------------------------
(* The state of main while a single function is under test.                *)

MainIdle ==
    /\ pc = "idle"
    /\ env = <<>>
    /\ config = <<>>
    /\ flt = <<>>
    /\ dir_i = 0
    /\ file_i = 0
    /\ stdout = <<>>
    /\ stderr = <<>>
    /\ exit_code = -1
    /\ history = <<>>

----------------------------------------------------------------------------
(* SpecSubstring: SubstringFilter::new(pattern).filter(filename) for every *)
(* pattern and file name within the bounds.                                *)

InitSubstring ==
    /\ call \in [pattern : SeqsUpTo(NameBytes, MaxPatLen),
                 filename : SeqsUpTo(NameBytes, MaxNameLen)]
    /\ ret = Pending
    /\ MainIdle

CallSubstringFilter ==
    /\ ret = Pending
    /\ ret' = SubstringFilter_filter(call.pattern, call.filename)
    /\ UNCHANGED <<call, mainVars>>

NextSubstring == CallSubstringFilter

SpecSubstring == InitSubstring /\ [][NextSubstring]_vars

\* p occurs in f at 0-based offset s as a contiguous byte run
OccursAt(p, f, s) ==
    /\ s >= 0
    /\ s + Len(p) <= Len(f)
    /\ \A k \in 1..Len(p) : f[s + k] = p[k]

\* C1: for a non-empty pattern, filter returns Matched(Range(s, s + len(p)))
\* exactly when p occurs in the name, with s the lowest offset of an
\* occurrence, and NoMatch in every other case (longer pattern, empty name).
C1_SubstringFirstOccurrence ==
    (ret # Pending /\ Len(call.pattern) > 0) =>
        LET p == call.pattern
            f == call.filename
            occ == {s \in 0..Len(f) : OccursAt(p, f, s)}
        IN  /\ occ # {} =>
                \E s \in occ :
                    /\ \A t \in occ : s <= t
                    /\ ret = Matched(MatchRange_Range(s, s + Len(p)))
            /\ occ = {} => ret = NoMatch
            /\ Len(p) > Len(f) => ret = NoMatch

\* C1 witness: a name holding the pattern twice, reported at the first place
C1_Witness ==
    /\ ret # Pending
    /\ Len(call.pattern) > 0
    /\ Cardinality({s \in 0..Len(call.filename) :
                        OccursAt(call.pattern, call.filename, s)}) >= 2
    /\ ret.tag = "Matched"
    /\ ret.range.start > 0

\* C2: with the empty pattern, filter returns Matched(Range(0, 0)) for every
\* name, the empty name included, and never fails.
C2_EmptyPatternMatches ==
    (ret # Pending /\ Len(call.pattern) = 0) =>
        ret = Matched(MatchRange_Range(0, 0))

----------------------------------------------------------------------------
(* SpecRegex: RegexFilter::new(pattern), then filter(filename), for every  *)
(* modelled pattern and every file name within the bounds.                 *)

\* the bytes of the file names of SpecRegex: 'a', 'b', '1'
RegexNameBytes == {97, 98, 49}

InitRegex ==
    /\ call \in [pattern : RegexPatterns,
                 filename : SeqsUpTo(RegexNameBytes, MaxNameLen)]
    /\ ret = Pending
    /\ MainIdle

CallRegexFilter ==
    /\ ret = Pending
    /\ LET built == RegexFilter_new(call.pattern)
       IN  ret' = IF built.tag = "Ok"
                  THEN RegexFilter_filter(built.v, call.filename)
                  ELSE built
    /\ UNCHANGED <<call, mainVars>>

NextRegex == CallRegexFilter

SpecRegex == InitRegex /\ [][NextRegex]_vars

\* the language of re: f[s..e] is a match of re within f
RECURSIVE Matches(_, _, _, _)
Matches(re, f, s, e) ==
    CASE re.t = "lit" -> e = s + 1 /\ e <= Len(f) /\ f[e] = re.c
      [] re.t = "class" -> e = s + 1 /\ e <= Len(f) /\ f[e] \in re.s
      [] re.t = "bol" -> e = s /\ s = 0
      [] re.t = "eol" -> e = s /\ s = Len(f)
      [] re.t = "empty" -> e = s
      [] re.t = "cat" -> \E m \in s..e : Matches(re.l, f, s, m) /\ Matches(re.r, f, m, e)
      [] re.t = "alt" -> Matches(re.l, f, s, e) \/ Matches(re.r, f, s, e)
      [] re.t = "star" ->
            \/ e = s
            \/ \E m \in (s + 1)..e : Matches(re.r, f, s, m) /\ Matches(re, f, m, e)

\* every match of the compiled pattern of the call in its file name
AllMatches ==
    LET re == Regex_new(call.pattern).v
        f == call.filename
    IN  {m \in (0..Len(f)) \X (0..Len(f)) : m[1] <= m[2] /\ Matches(re, f, m[1], m[2])}

\* C3: for a compiled regex, filter returns Matched(Range(start, end)) of a
\* match with the lowest start offset (never a later one), NoMatch when the
\* regex matches nowhere, and a match of length zero is Matched with
\* start = end.
C3_RegexLeftmostMatch ==
    (ret # Pending /\ call.pattern \in ValidRegexPatterns) =>
        /\ AllMatches = {} => ret = NoMatch
        /\ AllMatches # {} =>
            /\ ret.tag = "Matched"
            /\ ret.range.tag = "Range"
            /\ <<ret.range.start, ret.range.end>> \in AllMatches
            /\ \A m \in AllMatches : ret.range.start <= m[1]
        /\ (AllMatches # {} /\ \A m \in AllMatches : m[1] = m[2]) =>
            (ret.tag = "Matched" /\ ret.range.start = ret.range.end)

\* C3 witness: a name with two separate matches, the first one reported
C3_Witness ==
    /\ ret # Pending
    /\ call.pattern = Pat_digits
    /\ call.filename = <<97, 49, 98, 49>>
    /\ ret = Matched(MatchRange_Range(1, 2))

\* C3 witness of the zero-length case: a* in "bb" matches the empty string at 0
C3_WitnessEmptyMatch ==
    /\ ret # Pending
    /\ call.pattern = Pat_a_star
    /\ call.filename = <<98, 98>>
    /\ ret = Matched(MatchRange_Range(0, 0))

----------------------------------------------------------------------------
(* SpecExecutable: ExecutableFilter.filter on one directory entry, for     *)
(* every permission mode and file type and for unreadable metadata.        *)

InitExecutable ==
    /\ call \in [metadata : {Ok(Metadata(m, t)) : m \in 0..511, t \in FileTypes}
                                \cup {Err("Permission denied")}]
    /\ ret = Pending
    /\ MainIdle

CallExecutableFilter ==
    /\ ret = Pending
    /\ ret' = ExecutableFilter_filter(call.metadata)
    /\ UNCHANGED <<call, mainVars>>

NextExecutable == CallExecutableFilter

SpecExecutable == InitExecutable /\ [][NextExecutable]_vars

\* some execute bit (owner 0o100, group 0o010, other 0o001) is set in mode
AnyExecuteBit(mode) == \E bit \in {64, 8, 1} : (mode \div bit) % 2 = 1

\* C7: the executable check is true exactly when an execute bit is set and
\* the entry is a regular file or a symbolic link.
C7_ExecutableIffBitAndFileOrSymlink ==
    (ret # Pending /\ call.metadata.tag = "Ok") =>
        /\ ret.tag = "Bool"
        /\ ret.b <=> (/\ AnyExecuteBit(call.metadata.v.mode)
                      /\ call.metadata.v.file_type \in {"file", "symlink"})

\* what the code does hold to: the check is true exactly when an execute
\* bit is set, whatever the file type
ExecutableIffBit ==
    (ret # Pending /\ call.metadata.tag = "Ok") =>
        /\ ret.tag = "Bool"
        /\ ret.b <=> AnyExecuteBit(call.metadata.v.mode)

\* C6: a failure to read an entry's metadata skips that entry and never
\* aborts the process.
C6_MetadataFailureNeverAborts ==
    (ret # Pending /\ call.metadata.tag = "Err") => ret.tag # "Panicked"

----------------------------------------------------------------------------
(* SpecPrint: FormattedOutput::new(color).print(buf, dir, file, range) on  *)
(* an empty buffer, for every file name within the bounds, with and        *)
(* without color, for no range and for every pair of offsets.              *)

\* the bytes of the file names of SpecPrint: 'a', 'b', ESC
PrintNameBytes == {97, 98, 27}

\* the directories of SpecPrint: "", "/a", "/b/a"
PrintDirs == {<<>>, <<47, 97>>, <<47, 98, 47, 97>>}

\* the ranges print is given: none, or any pair of offsets up to one past
\* the longest name
PrintRanges ==
    {MatchRange_None}
        \cup {MatchRange_Range(s, e) : s \in 0..(MaxNameLen + 1), e \in 0..(MaxNameLen + 1)}

InitPrint ==
    /\ call \in [color : BOOLEAN,
                 dir : PrintDirs,
                 file : SeqsUpTo(PrintNameBytes, MaxNameLen),
                 range : PrintRanges]
    /\ ret = Pending
    /\ MainIdle

CallPrint ==
    /\ ret = Pending
    /\ ret' = FormattedOutput_print(FormattedOutput_new(call.color), <<>>,
                                    call.dir, call.file, call.range)
    /\ UNCHANGED <<call, mainVars>>

NextPrint == CallPrint

SpecPrint == InitPrint /\ [][NextPrint]_vars

\* the range of the call is None or lies within its file name
RangeInBounds ==
    \/ call.range.tag = "None"
    \/ (call.range.start <= call.range.end /\ call.range.end <= Len(call.file))

\* the bytes of f at offsets from..to-1, given one by one
BytesOf(f, from, to) == [i \in 1..(to - from) |-> f[from + i]]

\* C8: with color disabled, print writes exactly directory, separator,
\* file name, newline, whatever the (in-bounds) range.
C8_NoColorVerbatim ==
    (ret # Pending /\ ~call.color /\ RangeInBounds) =>
        /\ ~ret.panicked
        /\ Len(ret.out) = Len(call.dir) + 1 + Len(call.file) + 1
        /\ \A i \in 1..Len(call.dir) : ret.out[i] = call.dir[i]
        /\ ret.out[Len(call.dir) + 1] = 47
        /\ \A i \in 1..Len(call.file) : ret.out[Len(call.dir) + 1 + i] = call.file[i]
        /\ ret.out[Len(ret.out)] = 10

\* C8 witness: a name holding an escape byte, printed without color with a
\* range inside it
C8_Witness ==
    /\ ret # Pending
    /\ ~call.color
    /\ call.range = MatchRange_Range(1, 2)
    /\ call.file = <<97, 27, 98>>
    /\ call.dir = <<47, 97>>
    /\ ret.out = <<47, 97, 47, 97, 27, 98, 10>>

\* the three parts of the file name of the call around its range
PartBefore == BytesOf(call.file, 0, call.range.start)
PartMatched == BytesOf(call.file, call.range.start, call.range.end)
PartAfter == BytesOf(call.file, call.range.end, Len(call.file))

\* the output of the same call with color disabled
PlainOutput ==
    FormattedOutput_print(FormattedOutput_new(FALSE), <<>>,
                          call.dir, call.file, call.range).out

\* C9: with color enabled, print writes dim, directory, separator, reset,
\* then the file name (for a range: the part before it, the match style,
\* the matched part, reset, the part after it), then reset and newline; the
\* same pieces without the style and reset sequences are the output with
\* color disabled.
C9_ColorStructure ==
    (ret # Pending /\ call.color /\ RangeInBounds) =>
        /\ ~ret.panicked
        /\ call.range.tag = "None" =>
            /\ ret.out = DIM \o call.dir \o <<47>> \o RESET
                            \o call.file \o RESET \o <<10>>
            /\ PlainOutput = call.dir \o <<47>> \o call.file \o <<10>>
        /\ call.range.tag = "Range" =>
            /\ ret.out = DIM \o call.dir \o <<47>> \o RESET
                            \o PartBefore \o BOLD_RED \o PartMatched \o RESET
                            \o PartAfter \o RESET \o <<10>>
            /\ PlainOutput = call.dir \o <<47>>
                            \o PartBefore \o PartMatched \o PartAfter \o <<10>>

\* C9 witness: a match in the middle of a name, printed with color
C9_Witness ==
    /\ ret # Pending
    /\ call.color
    /\ call.file = <<97, 98, 97>>
    /\ call.range = MatchRange_Range(1, 2)
    /\ call.dir = <<47, 97>>
    /\ ret.out = DIM \o <<47, 97, 47>> \o RESET \o <<97>> \o BOLD_RED \o <<98>>
                    \o RESET \o <<97>> \o RESET \o <<10>>

----------------------------------------------------------------------------
(* Spec: the whole program, from Config::new to its exit.                  *)

\* main has built its filter and entered (or left) the scan
ScanStarted == flt.tag = "Some"

\* the print calls made so far, in order
PrintEvents == SelectSeq(history, LAMBDA e : e.ev = "print")

\* the line for entry number `file` of the directory at list position `dir`
LineOf(dir, file) ==
    LET d == config.v.dirs[dir]
        name == Display(read_dir(env.fs, d).v[file].v)
    IN  FormattedOutput_print(FormattedOutput_new(config.v.color), <<>>,
                              Display(d), name,
                              FileNameFilter_filter(flt.v, name).range).out

\* the lines of a sequence of print events, one after the other
RECURSIVE LinesOf(_)
LinesOf(events) ==
    IF events = <<>> THEN <<>>
    ELSE LineOf(Head(events).dir, Head(events).file) \o LinesOf(Tail(events))

\* C4: standard output holds the lines of the matches in scan order: a line
\* of the directory at list position i comes before every line of the
\* directory at position j > i, and the lines of one directory come in the
\* order the listing yielded its entries.
C4_OutputInDirectoryListOrder ==
    ScanStarted =>
        /\ \A m \in 1..Len(PrintEvents) : \A n \in (m + 1)..Len(PrintEvents) :
                \/ PrintEvents[m].dir < PrintEvents[n].dir
                \/ /\ PrintEvents[m].dir = PrintEvents[n].dir
                   /\ PrintEvents[m].file < PrintEvents[n].file
        /\ stdout = LinesOf(PrintEvents)

\* C4 witness: PATH=/a:/b, both directories hold matches, /a holds several
C4_Witness ==
    /\ pc = "exited"
    /\ exit_code = 0
    /\ ScanStarted
    /\ config.v.dirs = <<Dir_a, Dir_b>>
    /\ env.fs[Dir_a] # env.fs[Dir_b]
    /\ Cardinality({m \in 1..Len(PrintEvents) : PrintEvents[m].dir = 1}) >= 2
    /\ \E m \in 1..Len(PrintEvents) : PrintEvents[m].dir = 2

\* the scan as a function of a list of directories that can all be listed:
\* the state [out, err, code] after the entries of `files` from number j on
RECURSIVE RefFiles(_, _, _, _)
RefFiles(st, dir, files, j) ==
    IF st.code # -1 \/ j > Len(files) THEN st
    ELSE IF files[j].tag = "Err"
    THEN RefFiles([st EXCEPT !.err = @ \o <<[msg |-> "Failed to get directory entry",
                                             dir |-> Display(dir),
                                             detail |-> files[j].e]>>],
                  dir, files, j + 1)
    ELSE LET name == Display(files[j].v)
             r == FileNameFilter_filter(flt.v, name)
         IN  CASE r.tag = "Panicked" ->
                    [st EXCEPT !.err = @ \o <<[msg |-> "panicked", detail |-> r.msg]>>,
                               !.code = 101]
               [] r.tag = "NoMatch" -> RefFiles(st, dir, files, j + 1)
               [] r.tag = "Matched" ->
                    RefFiles([st EXCEPT !.out = FormattedOutput_print(
                                    FormattedOutput_new(config.v.color), @,
                                    Display(dir), name, r.range).out],
                             dir, files, j + 1)

\* ... and after the directories of `dirs` from position i on
RECURSIVE RefDirs(_, _, _)
RefDirs(st, dirs, i) ==
    IF st.code # -1 THEN st
    ELSE IF i > Len(dirs) THEN [st EXCEPT !.code = 0]
    ELSE RefDirs(RefFiles(st, dirs[i], env.fs[dirs[i]].v, 1), dirs, i + 1)

\* the directories of the list that can be listed, in list order
ListableDirs ==
    SelectSeq(config.v.dirs, LAMBDA d : d \in DOMAIN env.fs /\ env.fs[d].tag = "Ok")

\* some directory of the list cannot be listed
SomeUnlistable == Len(ListableDirs) < Len(config.v.dirs)

\* C5: a directory that cannot be listed adds nothing to standard output or
\* to standard error, and the run ends as the scan of the list without it:
\* same output, same diagnostics, same exit status.
C5_UnlistableDirectorySkipped ==
    (pc = "exited" /\ ScanStarted /\ SomeUnlistable) =>
        [out |-> stdout, err |-> stderr, code |-> exit_code]
            = RefDirs([out |-> <<>>, err |-> <<>>, code |-> -1], ListableDirs, 1)

\* C5 witness: PATH=:/a with matches in /a, found after the unlistable ""
C5_Witness ==
    /\ pc = "exited"
    /\ ScanStarted
    /\ exit_code = 0
    /\ config.v.dirs = <<<<>>, Dir_a>>
    /\ \E m \in 1..Len(PrintEvents) : PrintEvents[m].dir = 2
    /\ stdout # <<>>

\* the run is in regex mode with a pattern that does not compile
InvalidRegexRun ==
    /\ config.tag = "Some"
    /\ config.v.search_type = "Regex"
    /\ RegexFilter_new(config.v.pattern.v).tag = "Err"

\* C10: in regex mode an invalid pattern ends the run with a diagnostic
\* naming the pattern and a non-zero status, before any directory is listed
\* and without a line on standard output.
C10_InvalidRegexAborts ==
    InvalidRegexRun =>
        /\ history = <<>>
        /\ stdout = <<>>
        /\ pc \in {"validate", "filter", "exited"}
        /\ flt.tag = "None"
        /\ pc = "exited" =>
            /\ exit_code # 0
            /\ \E k \in 1..Len(stderr) :
                    /\ stderr[k].msg = "Invalid regex pattern"
                    /\ stderr[k].pattern = config.v.pattern.v

\* C10 witness: `pathsearch -r "("` with PATH=/a and names in /a
C10_Witness ==
    /\ pc = "exited"
    /\ InvalidRegexRun
    /\ config.v.pattern.v = Pat_open
    /\ config.v.dirs = <<Dir_a>>
    /\ env.fs[Dir_a].tag = "Ok"
    /\ Len(env.fs[Dir_a].v) > 0
    /\ exit_code = 1

\* The half of C6 about directory records, which main keeps: an entry whose
\* record cannot be read adds one diagnostic to standard error and the scan
\* goes on; every run that entered the scan ends as the reference scan.
DirectoryEntryFailureSkipped ==
    (pc = "exited" /\ ScanStarted) =>
        [out |-> stdout, err |-> stderr, code |-> exit_code]
            = RefDirs([out |-> <<>>, err |-> <<>>, code |-> -1], ListableDirs, 1)

\* a run that met an unreadable entry, reported it and printed a later match
DirectoryEntryFailureSeen ==
    /\ pc = "exited"
    /\ exit_code = 0
    /\ \E k \in 1..Len(stderr) : stderr[k].msg = "Failed to get directory entry"
    /\ \E m \in 1..Len(PrintEvents) : PrintEvents[m].file > 2

----------------------------------------------------------------------------
(* Spec, continued: the directory list, completion of the scan, the lines  *)
(* emitted and the ranges handed to print.                                 *)

\* the read_dir calls made so far, in order
ReadDirEvents == SelectSeq(history, LAMBDA e : e.ev = "read_dir")

\* PATH is unset, or set to the empty string
PathAbsentOrEmpty == env.PATH.tag = "None" \/ env.PATH.v = <<>>

\* C11: with PATH absent or empty the directory list is empty and the
\* program aborts before scanning: a report on standard error, a non-zero
\* exit status, no directory listing attempted and no match line written.
C11_AbsentOrEmptyPathAborts ==
    PathAbsentOrEmpty =>
        /\ config.tag = "Some" => config.v.dirs = <<>>
        /\ ReadDirEvents = <<>>
        /\ PrintEvents = <<>>
        /\ pc = "exited" => (exit_code # 0 /\ stderr # <<>>)

\* what the code does with an absent PATH: the panic of expect, status 101,
\* a message on standard error, no Config and no listing
AbsentPathPanics ==
    (env.PATH.tag = "None" /\ env.args.tag = "Ok") =>
        /\ config.tag = "None"
        /\ history = <<>>
        /\ pc = "exited" => (exit_code = 101 /\ stderr # <<>> /\ stdout = <<>>)

\* what the code does with an empty PATH: the list holds the one path "",
\* which is listed (and fails), and the run ends with status 0 and silence
EmptyPathScansEmptyName ==
    (env.PATH.tag = "Some" /\ env.PATH.v = <<>> /\ env.args.tag = "Ok") =>
        /\ config.tag = "Some" => config.v.dirs = <<<<>>>>
        /\ pc = "exited" =>
            \/ (exit_code = 0 /\ Len(ReadDirEvents) = 1 /\ stdout = <<>> /\ stderr = <<>>)
            \/ InvalidRegexRun

\* a run with an empty PATH that ended with status 0 after one read_dir
EmptyPathExitsZero ==
    /\ pc = "exited"
    /\ env.PATH.tag = "Some"
    /\ env.PATH.v = <<>>
    /\ exit_code = 0
    /\ Len(ReadDirEvents) = 1

\* every list position was visited exactly once, in list order
EachPositionVisitedOnce ==
    ReadDirEvents = [i \in 1..Len(config.v.dirs) |-> [ev |-> "read_dir", dir |-> i]]

\* C12: once setup has succeeded the scan runs to completion, visiting each
\* list position exactly once and in order, and the process exits with
\* status zero whatever directories and entries it met.
C12_ScanCompletesWithStatusZero ==
    (pc = "exited" /\ ScanStarted) =>
        /\ exit_code = 0
        /\ EachPositionVisitedOnce

\* what the code does hold to: the scan completes with status zero unless
\* the filter is the substring filter of the empty pattern, which panics
\* on the first entry it is given (C2)
ScanCompletesUnlessEmptyPattern ==
    (pc = "exited" /\ ScanStarted
        /\ ~(flt.v.kind = "Substring" /\ flt.v.pattern = <<>>)) =>
        /\ exit_code = 0
        /\ EachPositionVisitedOnce

\* a run of `pathsearch ""` that the panic of the filter ended
EmptyPatternAbortsScan ==
    /\ pc = "exited"
    /\ ScanStarted
    /\ flt.v.kind = "Substring"
    /\ flt.v.pattern = <<>>
    /\ exit_code = 101
    /\ Len(ReadDirEvents) < Len(config.v.dirs)

\* main is sequential and every step is a terminating call: a run that can
\* take a step takes it
FairSpec == Spec /\ WF_vars(Next)

\* every run of main ends
Terminates == <>(pc = "exited")

\* the numbers of the entries of the directory at list position i that are
\* successfully listed and whose name the filter matches
MatchedEntries(i) ==
    LET l == read_dir(env.fs, config.v.dirs[i])
    IN  IF l.tag = "Err" THEN {}
        ELSE {j \in 1..Len(l.v) :
                /\ l.v[j].tag = "Ok"
                /\ FileNameFilter_filter(flt.v, Display(l.v[j].v)).tag = "Matched"}

\* the pairs <<list position, entry number>> the filter matches
MatchedPairs ==
    UNION {{<<i, j>> : j \in MatchedEntries(i)} : i \in 1..Len(config.v.dirs)}

\* the pairs printed so far
PrintedPairs == {<<PrintEvents[m].dir, PrintEvents[m].file>> : m \in 1..Len(PrintEvents)}

\* C13: the scan emits exactly one line for each pair (list position,
\* listed entry) the filter matches and none for any other entry; nothing
\* is deduplicated, neither a name found in two directories nor a
\* directory listed twice.
C13_OneLinePerMatchedPair ==
    ScanStarted =>
        /\ PrintedPairs \subseteq MatchedPairs
        /\ Len(PrintEvents) = Cardinality(PrintedPairs)
        /\ pc = "exited" =>
            /\ PrintedPairs = MatchedPairs
            /\ stdout = LinesOf(PrintEvents)

\* C13 witness: PATH=/a:/a, and /a holds ab, b and bab: `pathsearch ab`
\* prints ab and bab twice over and b never
C13_Witness ==
    /\ pc = "exited"
    /\ ScanStarted
    /\ config.v.dirs = <<Dir_a, Dir_a>>
    /\ flt.v = [kind |-> "Substring", pattern |-> Pat_ab]
    /\ PrintedPairs = {<<1, 1>>, <<1, 4>>, <<2, 1>>, <<2, 4>>}
    /\ Len(PrintEvents) = 4
    /\ ~config.v.color
    /\ stdout = <<47, 97, 47, 97, 98, 10>> \o <<47, 97, 47, 98, 97, 98, 10>>
                    \o <<47, 97, 47, 97, 98, 10>> \o <<47, 97, 47, 98, 97, 98, 10>>

\* the same name in two directories gives two lines, the earlier first
SameNameInTwoDirectories ==
    /\ pc = "exited"
    /\ ScanStarted
    /\ config.v.dirs = <<Dir_b, Dir_a>>
    /\ env.fs[Dir_a] = env.fs[Dir_b]
    /\ flt.v = [kind |-> "Substring", pattern |-> Pat_ab]
    /\ ~config.v.color
    /\ stdout = <<47, 98, 47, 97, 98, 10>> \o <<47, 98, 47, 98, 97, 98, 10>>
                    \o <<47, 97, 47, 97, 98, 10>> \o <<47, 97, 47, 98, 97, 98, 10>>

\* the range r lies within a name of len bytes: 0 <= start <= end <= len
RangeWithin(r, len) ==
    r.tag = "Range" => (0 <= r.start /\ r.start <= r.end /\ r.end <= len)

\* C14: every range a filter returns for a name lies within that name, the
\* scan gives print the very bytes it gave the filter, and so no print of
\* the scan fails on a slice.
C14_RangesWithinPrintedName ==
    ScanStarted =>
        /\ \A m \in 1..Len(PrintEvents) :
                /\ PrintEvents[m].printed = PrintEvents[m].filtered
                /\ RangeWithin(PrintEvents[m].range, Len(PrintEvents[m].printed))
        /\ \A d \in DirNames : env.fs[d].tag = "Ok" =>
                \A j \in 1..Len(env.fs[d].v) : env.fs[d].v[j].tag = "Ok" =>
                    LET name == Display(env.fs[d].v[j].v)
                        r == FileNameFilter_filter(flt.v, name)
                    IN  r.tag = "Matched" => RangeWithin(r.range, Len(name))
        /\ \A k \in 1..Len(stderr) :
                ~(stderr[k].msg = "panicked" /\ stderr[k].detail = "range out of bounds")

\* C14 witness: the name a\xFF, displayed as a followed by U+FFFD, matched
\* by `pathsearch a` at 0..1 and printed with color
C14_Witness ==
    /\ pc = "exited"
    /\ exit_code = 0
    /\ config.v.color
    /\ \E m \in 1..Len(PrintEvents) :
            /\ PrintEvents[m].filtered = <<97, 239, 191, 189>>
            /\ PrintEvents[m].printed = <<97, 239, 191, 189>>
            /\ PrintEvents[m].range = MatchRange_Range(0, 1)

\* the ranges of the substring filter taken alone lie within the name
SubstringRangeWithinName ==
    (ret # Pending /\ ret.tag = "Matched") => RangeWithin(ret.range, Len(call.filename))

\* the ranges of the regex filter taken alone lie within the name
RegexRangeWithinName ==
    (ret # Pending /\ ret.tag = "Matched") => RangeWithin(ret.range, Len(call.filename))

====
